---- MODULE Spec2Model ----
(***************************************************************************)
(* A model of AWSscripts/loggly_eb.py: the command line tool that writes   *)
(* or removes the rsyslog forwarding file 22-loggly.conf and restarts the  *)
(* rsyslog service.                                                        *)
(*                                                                         *)
(* Text is a sequence of chunks.  A chunk is one character given on the    *)
(* command line or in the environment, or one literal fragment of the      *)
(* program text (a piece of the template, a constant).  An optional value  *)
(* (Python's None or a value) is a sequence of length 0 or 1.              *)
(***************************************************************************)
EXTENDS Integers, Sequences, FiniteSets, TLC

VARIABLES
    py3,            \* the interpreter is Python 3 (six.b encodes) or Python 2
    target,         \* the file LOGGLY_RSYSLOG_CONFFILE
    backup,         \* the file LOGGLY_RSYSLOG_CONFFILE_BACKUP
    pc,             \* where the process is
    argv,           \* the flags given on the command line of the current run
    environ,        \* os.environ of the current run
    args,           \* main: the parsed arguments
    config,         \* main: the config dict handed to configure
    contents,       \* write_rsyslog_conf: the rendered text
    write_script,   \* write_rsyslog_conf: the flag of the same name
    code,           \* restart_rsyslog: the exit code of the service command
    out,            \* what log and print_usage have printed in this run
    ops,            \* the file system and process calls made in this run
    status,         \* the exit status of the process, once pc = "done"
    exc,            \* the uncaught exception that ended the run, or ""
    preTarget,      \* the target file as the current run found it
    preBackup,      \* the backup file as the current run found it
    repeat,         \* the current run repeats the inputs of the run before it
    replaced,       \* the target content the latest rewriting run replaced
    tagArgs,        \* tag resolution alone: the --tags flag
    tagEnv,         \* tag resolution alone: LOGGLY_TAGS
    tagRes,         \* tag resolution alone: what main resolves
    tagClause,      \* tag resolution alone: the rendered tag clause
    tpc             \* tag resolution alone: the position

vars == <<py3, target, backup, pc, argv, environ, args, config, contents,
          write_script, code, out, ops, status, exc, preTarget, preBackup,
          repeat, replaced, tagArgs, tagEnv, tagRes, tagClause, tpc>>

runVars == <<py3, target, backup, pc, argv, environ, args, config, contents,
             write_script, code, out, ops, status, exc, preTarget, preBackup,
             repeat, replaced>>

tagVars == <<tagArgs, tagEnv, tagRes, tagClause, tpc>>

----------------------------------------------------------------------------
(* Bounds of the model.                                                    *)

MaxTags == 2        \* the longest --tags list
MaxEnvLen == 3      \* the longest LOGGLY_TAGS string, in characters

----------------------------------------------------------------------------
(* Optional values, truthiness, text.                                      *)

None == <<>>
Some(v) == <<v>>

\* Python's truth value of an optional string or list: None, "" and [] are false.
Truthy(opt) == opt # None /\ opt[1] # <<>>

\* sep.join(parts)
RECURSIVE Join(_, _)
Join(sep, parts) ==
    IF parts = <<>> THEN <<>>
    ELSE IF Len(parts) = 1 THEN parts[1]
    ELSE parts[1] \o sep \o Join(sep, Tail(parts))

\* A character outside Latin-1 (code point 0x65E5).
Wide == "U+65E5"

\* six.b(s): the identity on Python 2, s.encode("latin-1") on Python 3,
\* which raises UnicodeEncodeError on a character above 0xFF.
\* The result is a byte string: one byte per character, never equal to a text.
Byte(c) == [byte |-> c]
SixBRaises(isPy3, s) == isPy3 /\ \E i \in 1..Len(s) : s[i] = Wide
SixB(isPy3, s) == [i \in 1..Len(s) |-> Byte(s[i])]

----------------------------------------------------------------------------
(* Program constants.                                                      *)

LOGGLY_DISTRIBUTION_ID == "41058"
LOGS_01_HOST == "logs-01.loggly.com"
LOGGLY_SYSLOG_PORT == 514
RSYSLOG_SERVICE == "rsyslog"

\* The port as %(logs_port)d prints it.
FormatD(n) == IF n = 514 THEN "514" ELSE "?"

----------------------------------------------------------------------------
(* Files.  A path holds no file, or a regular file with its bytes.         *)

Absent == [exists |-> FALSE, data |-> <<>>]
File(bytes) == [exists |-> TRUE, data |-> bytes]

\* os.path.exists(path)
PathExists(f) == f.exists

\* A move that leaves a file already at dst alone.
ShutilMoveKeep(src, dst) == [src |-> Absent, dst |-> IF dst.exists THEN dst ELSE src]

\* shutil.move(src, dst) between two paths of one directory: os.rename, which
\* replaces a file at dst.  The pair of files afterwards.
ShutilMove(src, dst) == [src |-> Absent, dst |-> src]

----------------------------------------------------------------------------
(* log and its messages.  A message is its level (the text before the ':') *)
(* and a name for the rest of its text.                                    *)

Msg(level, text) == [level |-> level, text |-> text]

MsgConfigure == Msg("INFO", "Initiating Configure Loggly for Linux.")
MsgConfigured == Msg("SUCCESS", "Linux system successfully configured to send logs via Loggly.")
MsgExists == Msg("INFO", "Loggly rsyslog file already exist.")
MsgChanged == Msg("WARN", "Loggly rsyslog file content has changed.")
MsgBackUp == Msg("INFO", "Going to back up the conf file")
MsgWritten == Msg("INFO", "Loggly rsyslog file written.")
MsgUninstall == Msg("INFO", "Initiating uninstall Loggly for Linux.")
MsgUninstalled == Msg("SUCCESS", "Uninstalled Loggly configuration from Linux system.")
MsgRestarting == Msg("INFO", "Restarting the rsyslog service.")
MsgNoRestartError == Msg("ERROR", "rsyslog did not restart gracefully. Please restart rsyslog manually.")
MsgNoRestart == Msg("WARNING", "rsyslog did not restart gracefully. Please restart rsyslog manually.")
Usage == Msg("usage", "parser.print_usage()")

\* msg.startswith('ERROR'): log then calls sys.exit(1)
LogExits(msg) == msg.level = "ERROR"

\* What a run of log calls prints: every message up to the first that exits.
RECURSIVE Logged(_)
Logged(msgs) ==
    IF msgs = <<>> THEN <<>>
    ELSE IF LogExits(Head(msgs)) THEN <<Head(msgs)>>
    ELSE <<Head(msgs)>> \o Logged(Tail(msgs))

\* One of the log calls exits the process.
Fatal(msgs) == \E i \in 1..Len(msgs) : LogExits(msgs[i])

----------------------------------------------------------------------------
(* get_loggly_conf                                                         *)

\* The pieces of the dedented template between its placeholders, %% read as %.
T_Head == "# --- Syslog Logging Directives for Loggly ("
T_Template == ".loggly.com) --- $template LogglyFormat,\"<%pri%>%protocol-version% %timestamp:::date-rfc3339% "
T_Fields == " %app-name% %procid% %msgid% ["
T_Queue == "] %msg%\\n\" $WorkDirectory ... $ActionResumeRetryCount -1 *.* @@"
T_Tail == ";LogglyFormat # ---"

HostnamePlaceholder == <<"%HOSTNAME%">>
DefaultTag == <<"Rsyslog">>
TagOpen == "tag=\\\""
TagClose == "\\\""

\* The given tags in place of the default one.
TagListReplace(tags) == IF Truthy(tags) THEN tags[1] ELSE <<DefaultTag>>

\* tags = ['Rsyslog']; if args.get('tags'): tags += args['tags']
TagList(tags) == IF Truthy(tags) THEN <<DefaultTag>> \o tags[1] ELSE <<DefaultTag>>

\* r'tag=\"%s\"' % tag
TagEntry(tag) == <<TagOpen>> \o tag \o <<TagClose>>

\* ' '.join((r'tag=\"%s\"' % tag) for tag in tags)
TagClause(tags) ==
    LET list == TagList(tags)
    IN  Join(<<" ">>, [i \in 1..Len(list) |-> TagEntry(list[i])])

\* '%s' % v for an optional string
FormatS(opt) == IF opt = None THEN <<"None">> ELSE opt[1]

GetLogglyConf(cfg) ==
    LET hostname == IF Truthy(cfg.hostname) THEN cfg.hostname[1] ELSE HostnamePlaceholder
    IN  <<T_Head>> \o FormatS(cfg.account) \o <<T_Template>> \o hostname \o <<T_Fields>>
        \o FormatS(cfg.token) \o <<"@", LOGGLY_DISTRIBUTION_ID, " ">> \o TagClause(cfg.tags)
        \o <<T_Queue, LOGS_01_HOST, ":", FormatD(LOGGLY_SYSLOG_PORT), T_Tail>>

----------------------------------------------------------------------------
(* main: argument parsing and tag resolution.                              *)

\* add_argument(..., default=os.environ.get(NAME)): the flag's value, else the default
ArgDefault(flag, env) == IF flag # None THEN flag ELSE env

ParseArgs(av, env) ==
    [account  |-> ArgDefault(av.account, env.LOGGLY_ACCOUNT),
     token    |-> ArgDefault(av.token, env.LOGGLY_TOKEN),
     tags     |-> av.tags,
     hostname |-> ArgDefault(av.hostname, env.LOGGLY_HOSTNAME),
     remove   |-> av.remove]

\* The credentials checked before the remove flag.
DispatchValidateFirst(a) ==
    IF ~Truthy(a.account) \/ ~Truthy(a.token) THEN "usage"
    ELSE IF a.remove THEN "unconfigure"
    ELSE "configure"

\* Usage only when both credentials are missing.
DispatchBothMissing(a) ==
    IF a.remove THEN "unconfigure"
    ELSE IF ~Truthy(a.account) /\ ~Truthy(a.token) THEN "usage"
    ELSE "configure"

\* The branch main takes: the remove flag first, then the credentials.
Dispatch(a) ==
    IF a.remove THEN "unconfigure"
    ELSE IF ~Truthy(a.account) \/ ~Truthy(a.token) THEN "usage"
    ELSE "configure"

\* shlex.split(s): POSIX rules with whitespace_split, over blanks, single
\* quotes and other characters.  st is the lexer's state: " " between tokens,
\* "a" in a word, "'" in a quotation.  A token is returned when it is not
\* empty or was quoted; an open quotation at the end raises ValueError.
RECURSIVE ShlexRun(_, _, _, _, _, _)
ShlexRun(s, i, st, tok, quoted, acc) ==
    LET emit == IF tok # <<>> \/ quoted THEN Append(acc, tok) ELSE acc
    IN  IF i > Len(s)
        THEN IF st = "'" THEN [raises |-> TRUE, tokens |-> <<>>]
             ELSE [raises |-> FALSE, tokens |-> emit]
        ELSE LET c == s[i]
             IN  IF st = " "
                 THEN IF c = " " THEN ShlexRun(s, i + 1, " ", <<>>, FALSE, acc)
                      ELSE IF c = "'" THEN ShlexRun(s, i + 1, "'", <<>>, TRUE, acc)
                      ELSE ShlexRun(s, i + 1, "a", <<c>>, FALSE, acc)
                 ELSE IF st = "'"
                 THEN IF c = "'" THEN ShlexRun(s, i + 1, "a", tok, TRUE, acc)
                      ELSE ShlexRun(s, i + 1, "'", Append(tok, c), TRUE, acc)
                 ELSE IF c = " " THEN ShlexRun(s, i + 1, " ", <<>>, FALSE, emit)
                      ELSE IF c = "'" THEN ShlexRun(s, i + 1, "'", tok, TRUE, acc)
                      ELSE ShlexRun(s, i + 1, "a", Append(tok, c), quoted, acc)

ShlexSplit(s) == ShlexRun(s, 1, " ", <<>>, FALSE, <<>>)

\* The flag tested for truth: an empty --tags falls through to the environment.
ResolveTagsTruthy(flag, env) ==
    IF Truthy(flag) THEN [raises |-> FALSE, tags |-> flag]
    ELSE IF Truthy(env)
    THEN LET r == ShlexSplit(env[1])
         IN  [raises |-> r.raises, tags |-> IF r.raises THEN None ELSE Some(r.tokens)]
    ELSE [raises |-> FALSE, tags |-> None]

\* if args.tags is not None: ... elif os.environ.get('LOGGLY_TAGS'): ... else: None
ResolveTags(flag, env) ==
    IF flag # None THEN [raises |-> FALSE, tags |-> flag]
    ELSE IF Truthy(env)
    THEN LET r == ShlexSplit(env[1])
         IN  [raises |-> r.raises, tags |-> IF r.raises THEN None ELSE Some(r.tokens)]
    ELSE [raises |-> FALSE, tags |-> None]

----------------------------------------------------------------------------
(* The inputs of a run.                                                    *)

CliAccounts == {None, Some(<<"a">>), Some(<<Wide>>)}
CliTokens == {None, Some(<<"t">>)}
CliTags == {None, Some(<<>>), Some(<< <<"x">> >>)}
CliHostnames == {None}
ExitCodes == {0, 1}

Argvs == [account : CliAccounts, token : CliTokens, tags : CliTags,
          hostname : CliHostnames, remove : BOOLEAN]

\* The environments: nothing set; every variable set; an empty token and a
\* tag list with an open quotation.
Environs ==
    { [LOGGLY_ACCOUNT |-> None, LOGGLY_TOKEN |-> None, LOGGLY_TAGS |-> None,
       LOGGLY_HOSTNAME |-> None],
      [LOGGLY_ACCOUNT |-> Some(<<"a">>), LOGGLY_TOKEN |-> Some(<<"t">>),
       LOGGLY_TAGS |-> Some(<<"x">>), LOGGLY_HOSTNAME |-> Some(<<"h">>)],
      [LOGGLY_ACCOUNT |-> None, LOGGLY_TOKEN |-> Some(<<>>),
       LOGGLY_TAGS |-> Some(<<"'">>), LOGGLY_HOSTNAME |-> None] }

\* What the two paths may hold before the first run.
ForeignConf == <<Byte("# another 22-loggly.conf")>>
ForeignBackup == <<Byte("# another backup")>>

NoArgv == [account |-> None, token |-> None, tags |-> None, hostname |-> None,
           remove |-> FALSE]
NoEnviron == [LOGGLY_ACCOUNT |-> None, LOGGLY_TOKEN |-> None, LOGGLY_TAGS |-> None,
              LOGGLY_HOSTNAME |-> None]
NoConfig == [account |-> None, token |-> None, tags |-> None, hostname |-> None]

----------------------------------------------------------------------------
(* The process.                                                            *)

Goto(label) == pc' = label /\ UNCHANGED <<status, exc>>
Exit(n) == pc' = "done" /\ status' = n /\ UNCHANGED exc
Raise(e) == pc' = "done" /\ status' = 1 /\ exc' = e

InitTags ==
    /\ tagArgs = None /\ tagEnv = None
    /\ tagRes = [raises |-> FALSE, tags |-> None]
    /\ tagClause = <<>>
    /\ tpc = "input"

InitRun ==
    /\ pc = "start"
    /\ argv = NoArgv /\ environ = NoEnviron /\ args = ParseArgs(NoArgv, NoEnviron)
    /\ config = NoConfig /\ contents = <<>> /\ write_script = FALSE
    /\ code = 0 /\ out = <<>> /\ ops = <<>> /\ status = -1 /\ exc = ""
    /\ preTarget = target /\ preBackup = backup
    /\ repeat = FALSE /\ replaced = None

Init ==
    /\ py3 \in BOOLEAN
    /\ target \in {Absent, File(ForeignConf)}
    /\ backup \in {Absent, File(ForeignBackup)}
    /\ InitRun
    /\ InitTags

\* main, lines 33-66: a new process starts on a command line and an environment.
Main(av, env) ==
    /\ pc \in {"start", "done"}
    /\ argv' = av /\ environ' = env
    /\ preTarget' = target /\ preBackup' = backup
    /\ repeat' = (pc = "done" /\ av = argv /\ env = environ)
    /\ contents' = <<>> /\ write_script' = FALSE /\ code' = 0 /\ ops' = <<>>
    /\ LET a == ParseArgs(av, env)
           branch == Dispatch(a)
           r == ResolveTags(a.tags, env.LOGGLY_TAGS)
       IN  /\ args' = a
           /\ IF branch = "unconfigure"
              THEN /\ config' = NoConfig /\ out' = <<>>
                   /\ pc' = "unconfigure" /\ status' = -1 /\ exc' = ""
              ELSE IF branch = "usage"
              THEN /\ config' = NoConfig /\ out' = <<Usage>>
                   /\ pc' = "done" /\ status' = 1 /\ exc' = ""
              ELSE IF r.raises
              THEN /\ config' = NoConfig /\ out' = <<>>
                   /\ pc' = "done" /\ status' = 1 /\ exc' = "ValueError"
              ELSE /\ config' = [account |-> a.account, token |-> a.token,
                                 tags |-> r.tags, hostname |-> a.hostname]
                   /\ out' = <<>>
                   /\ pc' = "configure" /\ status' = -1 /\ exc' = ""
    /\ UNCHANGED <<py3, target, backup, replaced>>
    /\ UNCHANGED tagVars

\* configure, line 70
Configure ==
    /\ pc = "configure"
    /\ out' = out \o Logged(<<MsgConfigure>>)
    /\ IF Fatal(<<MsgConfigure>>) THEN Exit(1) ELSE Goto("write_rsyslog_conf")
    /\ UNCHANGED <<py3, target, backup, argv, environ, args, config, contents,
                   write_script, code, ops, preTarget, preBackup, repeat, replaced>>
    /\ UNCHANGED tagVars

\* A comparison that always sees a change.
DiffersAlways(new, old) == TRUE

\* six.b(contents) != old_contents
Differs(new, old) == new # old

\* write_rsyslog_conf, lines 83-87 and 95-96: render, then look for the file.
WriteRsyslogConf ==
    /\ pc = "write_rsyslog_conf"
    /\ contents' = GetLogglyConf(config)
    /\ ops' = Append(ops, "exists")
    /\ IF PathExists(target)
       THEN /\ out' = out \o Logged(<<MsgExists>>)
            /\ write_script' = FALSE
            /\ IF Fatal(<<MsgExists>>) THEN Exit(1) ELSE Goto("read_conf")
       ELSE /\ out' = out
            /\ write_script' = TRUE
            /\ Goto("write_conf")
    /\ UNCHANGED <<py3, target, backup, argv, environ, args, config, code,
                   preTarget, preBackup, repeat, replaced>>
    /\ UNCHANGED tagVars

\* write_rsyslog_conf, lines 88-94: read the file, compare, move it away.
ReadConf ==
    /\ pc = "read_conf"
    /\ LET old_contents == target.data
           changed == <<MsgChanged, MsgBackUp>>
       IN  IF SixBRaises(py3, contents)
           THEN /\ ops' = Append(ops, "read")
                /\ Raise("UnicodeEncodeError")
                /\ UNCHANGED <<target, backup, out, write_script>>
           ELSE IF Differs(SixB(py3, contents), old_contents)
           THEN /\ out' = out \o Logged(changed)
                /\ IF Fatal(changed)
                   THEN /\ ops' = Append(ops, "read")
                        /\ Exit(1)
                        /\ UNCHANGED <<target, backup, write_script>>
                   ELSE /\ ops' = ops \o <<"read", "move">>
                        /\ target' = ShutilMove(target, backup).src
                        /\ backup' = ShutilMove(target, backup).dst
                        /\ write_script' = TRUE
                        /\ Goto("write_conf")
           ELSE /\ ops' = Append(ops, "read")
                /\ Goto("write_conf")
                /\ UNCHANGED <<target, backup, out, write_script>>
    /\ UNCHANGED <<py3, argv, environ, args, config, contents, code,
                   preTarget, preBackup, repeat, replaced>>
    /\ UNCHANGED tagVars

\* write_rsyslog_conf, lines 97-100: open the file for writing, which creates
\* or empties it, then write the encoded text.
WriteConf ==
    /\ pc = "write_conf"
    /\ IF write_script
       THEN IF SixBRaises(py3, contents)
            THEN /\ ops' = Append(ops, "open")
                 /\ target' = File(<<>>)
                 /\ Raise("UnicodeEncodeError")
                 /\ UNCHANGED <<out, replaced>>
            ELSE /\ ops' = ops \o <<"open", "write">>
                 /\ target' = File(SixB(py3, contents))
                 /\ replaced' = IF PathExists(preTarget) THEN Some(preTarget.data)
                                ELSE replaced
                 /\ out' = out \o Logged(<<MsgWritten>>)
                 /\ IF Fatal(<<MsgWritten>>) THEN Exit(1) ELSE Goto("restart_rsyslog")
       ELSE /\ out' = out \o Logged(<<MsgWritten>>)
            /\ IF Fatal(<<MsgWritten>>) THEN Exit(1) ELSE Goto("restart_rsyslog")
            /\ UNCHANGED <<ops, target, replaced>>
    /\ UNCHANGED <<py3, backup, argv, environ, args, config, contents,
                   write_script, code, preTarget, preBackup, repeat>>
    /\ UNCHANGED tagVars

\* unconfigure, line 104
Unconfigure ==
    /\ pc = "unconfigure"
    /\ out' = out \o Logged(<<MsgUninstall>>)
    /\ IF Fatal(<<MsgUninstall>>) THEN Exit(1) ELSE Goto("remove_loggly_conf")
    /\ UNCHANGED <<py3, target, backup, argv, environ, args, config, contents,
                   write_script, code, ops, preTarget, preBackup, repeat, replaced>>
    /\ UNCHANGED tagVars

\* os.unlink without the os.path.exists test: FileNotFoundError on no file.
RemoveLogglyConfUnguarded ==
    /\ pc = "remove_loggly_conf"
    /\ IF PathExists(target)
       THEN /\ ops' = Append(ops, "unlink")
            /\ target' = Absent
            /\ Goto("restart_rsyslog")
       ELSE /\ ops' = Append(ops, "unlink")
            /\ target' = target
            /\ Raise("FileNotFoundError")
    /\ UNCHANGED <<py3, backup, argv, environ, args, config, contents,
                   write_script, code, out, preTarget, preBackup, repeat, replaced>>
    /\ UNCHANGED tagVars

\* A removal that deletes the backup file as well.
RemoveLogglyConfAndBackup ==
    /\ pc = "remove_loggly_conf"
    /\ IF PathExists(target)
       THEN /\ ops' = ops \o <<"exists", "unlink">>
            /\ target' = Absent
       ELSE /\ ops' = Append(ops, "exists")
            /\ target' = target
    /\ backup' = Absent
    /\ Goto("restart_rsyslog")
    /\ UNCHANGED <<py3, argv, environ, args, config, contents,
                   write_script, code, out, preTarget, preBackup, repeat, replaced>>
    /\ UNCHANGED tagVars

\* remove_loggly_conf, lines 115-118
RemoveLogglyConf ==
    /\ pc = "remove_loggly_conf"
    /\ IF PathExists(target)
       THEN /\ ops' = ops \o <<"exists", "unlink">>
            /\ target' = Absent
       ELSE /\ ops' = Append(ops, "exists")
            /\ target' = target
    /\ Goto("restart_rsyslog")
    /\ UNCHANGED <<py3, backup, argv, environ, args, config, contents,
                   write_script, code, out, preTarget, preBackup, repeat, replaced>>
    /\ UNCHANGED tagVars

\* restart_rsyslog, lines 121-126; c is the exit code of the service command.
\* It returns into configure (line 78) or unconfigure (line 112).
RestartRsyslog(c) ==
    /\ pc = "restart_rsyslog"
    /\ IF Fatal(<<MsgRestarting>>)
       THEN /\ out' = out \o Logged(<<MsgRestarting>>)
            /\ Exit(1)
            /\ UNCHANGED <<ops, code>>
       ELSE /\ ops' = Append(ops, "restart")
            /\ code' = c
            /\ IF c # 0
               THEN /\ out' = out \o Logged(<<MsgRestarting, MsgNoRestart>>)
                    /\ IF Fatal(<<MsgNoRestart>>) THEN Exit(1)
                       ELSE Goto(IF args.remove THEN "unconfigured" ELSE "configured")
               ELSE /\ out' = out \o Logged(<<MsgRestarting>>)
                    /\ Goto(IF args.remove THEN "unconfigured" ELSE "configured")
    /\ UNCHANGED <<py3, target, backup, argv, environ, args, config, contents,
                   write_script, preTarget, preBackup, repeat, replaced>>
    /\ UNCHANGED tagVars

\* configure, line 78, and the return through main: the process ends.
Configured ==
    /\ pc = "configured"
    /\ out' = out \o Logged(<<MsgConfigured>>)
    /\ IF Fatal(<<MsgConfigured>>) THEN Exit(1) ELSE Exit(0)
    /\ UNCHANGED <<py3, target, backup, argv, environ, args, config, contents,
                   write_script, code, ops, preTarget, preBackup, repeat, replaced>>
    /\ UNCHANGED tagVars

\* unconfigure, line 112, and the return through main: the process ends.
Unconfigured ==
    /\ pc = "unconfigured"
    /\ out' = out \o Logged(<<MsgUninstalled>>)
    /\ IF Fatal(<<MsgUninstalled>>) THEN Exit(1) ELSE Exit(0)
    /\ UNCHANGED <<py3, target, backup, argv, environ, args, config, contents,
                   write_script, code, ops, preTarget, preBackup, repeat, replaced>>
    /\ UNCHANGED tagVars

Next ==
    \/ \E av \in Argvs, env \in Environs : Main(av, env)
    \/ Configure
    \/ WriteRsyslogConf
    \/ ReadConf
    \/ WriteConf
    \/ Unconfigure
    \/ RemoveLogglyConf
    \/ \E c \in ExitCodes : RestartRsyslog(c)
    \/ Configured
    \/ Unconfigured

Spec == Init /\ [][Next]_vars

----------------------------------------------------------------------------
(* Tag resolution and tag rendering alone, over every --tags list of at    *)
(* most MaxTags tags and every LOGGLY_TAGS string of at most MaxEnvLen     *)
(* characters.                                                             *)

SeqsUpTo(S, n) == UNION {[1..k -> S] : k \in 0..n}

TagNames == {<<>>, <<"x">>, <<"y">>}
EnvChars == {"x", " ", "'"}
TagFlags == {None} \cup {Some(l) : l \in SeqsUpTo(TagNames, MaxTags)}
TagEnvs == {None} \cup {Some(e) : e \in SeqsUpTo(EnvChars, MaxEnvLen)}

InitTagsAlone ==
    /\ py3 = TRUE /\ target = Absent /\ backup = Absent
    /\ InitRun
    /\ InitTags

\* main, lines 53-58
TagsResolve(flag, env) ==
    /\ tpc = "input"
    /\ tagArgs' = flag /\ tagEnv' = env
    /\ tagRes' = ResolveTags(flag, env)
    /\ tagClause' = <<>>
    /\ tpc' = "resolved"
    /\ UNCHANGED runVars

\* get_loggly_conf, lines 159-162, on the tags main resolved
TagsRender ==
    /\ tpc = "resolved" /\ ~tagRes.raises
    /\ tagClause' = TagClause(tagRes.tags)
    /\ tpc' = "rendered"
    /\ UNCHANGED <<tagArgs, tagEnv, tagRes>>
    /\ UNCHANGED runVars

NextTags ==
    \/ \E flag \in TagFlags, env \in TagEnvs : TagsResolve(flag, env)
    \/ TagsRender

SpecTags == InitTagsAlone /\ [][NextTags]_vars

----------------------------------------------------------------------------
(* Vocabulary of the properties.                                           *)

\* The run has ended and was a configure run: main reached configure(config).
ConfigureRunDone == pc = "done" /\ ~args.remove /\ config # NoConfig

\* The bytes the current run renders.
Rendered == SixB(py3, GetLogglyConf(config))

Did(op) == \E i \in 1..Len(ops) : ops[i] = op
Count(op) == Cardinality({i \in 1..Len(ops) : ops[i] = op})
Printed(msg) == \E i \in 1..Len(out) : out[i] = msg

\* The run left both files as it found them and wrote, moved, deleted nothing.
NoFileChange ==
    /\ target = preTarget /\ backup = preBackup
    /\ ~Did("move") /\ ~Did("open") /\ ~Did("write") /\ ~Did("unlink")

----------------------------------------------------------------------------
\* C1: a configure run that finds the target file with a content other than
\* the rendered one and runs to completion leaves the backup file with the
\* target's earlier content and the target file with the rendered content,
\* whatever the backup path held before.
C1_BackupThenWrite ==
    (ConfigureRunDone /\ status = 0 /\ PathExists(preTarget)
                      /\ preTarget.data # Rendered)
        => /\ backup = File(preTarget.data)
           /\ target = File(Rendered)

\* C1 witness: such a run has ended, over an older backup of another content.
C1_Witness ==
    /\ ConfigureRunDone /\ status = 0 /\ PathExists(preTarget)
    /\ preTarget.data # Rendered
    /\ PathExists(preBackup) /\ preBackup.data # preTarget.data
    /\ Did("move")

\* C2: a configure run that finds the target file with the rendered content
\* writes nothing and backs nothing up; and a configure run on the inputs of
\* the run before it leaves both files as that run left them, with no write
\* and no rename.
C2_UnchangedNoIO ==
    /\ (ConfigureRunDone /\ PathExists(preTarget) /\ preTarget.data = Rendered)
          => NoFileChange
    /\ (pc = "done" /\ ~args.remove /\ repeat) => NoFileChange

\* C2 witness: the second of two equal configure runs has ended successfully.
C2_Witness ==
    /\ ConfigureRunDone /\ repeat /\ status = 0
    /\ preTarget.data = Rendered
    /\ ops = <<"exists", "read", "restart">>

\* C3: a configure run that finds no target file writes the rendered content
\* to it and leaves the backup path as it was.
C3_AbsentWritten ==
    (ConfigureRunDone /\ ~PathExists(preTarget))
        => /\ target = File(Rendered)
           /\ backup = preBackup

\* C4: without the remove flag, and with the account or the token given
\* neither on the command line nor in the environment, the run prints the
\* usage and exits with status 1, having touched no file and restarted nothing.
C4_MissingCredentials ==
    (/\ pc # "start"
     /\ ~argv.remove
     /\ \/ argv.account = None /\ environ.LOGGLY_ACCOUNT = None
        \/ argv.token = None /\ environ.LOGGLY_TOKEN = None)
        => /\ pc = "done" /\ status = 1 /\ exc = ""
           /\ out = <<Usage>>
           /\ ops = <<>>
           /\ target = preTarget /\ backup = preBackup

\* C4 witness: a run with an account and no token has ended.
C4_Witness ==
    /\ pc = "done" /\ ~argv.remove
    /\ Truthy(args.account)
    /\ argv.token = None /\ environ.LOGGLY_TOKEN = None
    /\ out = <<Usage>>

\* C5: a remove run deletes the target file when there is one and does nothing
\* to it otherwise, without error; the target is absent afterwards and the
\* run calls the service restart exactly once, after the delete step.
C5_RemoveThenRestart ==
    (pc = "done" /\ args.remove)
        => /\ ~PathExists(target)
           /\ exc = ""
           /\ Count("restart") = 1
           /\ ops = IF PathExists(preTarget) THEN <<"exists", "unlink", "restart">>
                    ELSE <<"exists", "restart">>

\* C5 witness: a remove run that found no target file has ended.
C5_Witness ==
    /\ pc = "done" /\ args.remove /\ ~PathExists(preTarget)
    /\ Did("restart")

\* What a run that reaches the restart leaves on disk, whatever the restart's
\* exit code.
FilesAfter ==
    IF args.remove THEN [target |-> Absent, backup |-> preBackup]
    ELSE [target |-> File(Rendered),
          backup |-> IF PathExists(preTarget) /\ preTarget.data # Rendered
                     THEN File(preTarget.data) ELSE preBackup]

\* C6: a non-zero exit code of the service restart is not fatal: the run
\* prints the warning, goes on to its final success message and ends with
\* status 0, and the files are what the same run leaves on a zero exit code.
C6_RestartNotFatal ==
    /\ (pc = "done" /\ Did("restart"))
          => /\ target = FilesAfter.target
             /\ backup = FilesAfter.backup
    /\ (pc = "done" /\ Did("restart") /\ code # 0)
          => /\ status = 0 /\ exc = ""
             /\ Printed(MsgNoRestart)
             /\ out[Len(out)] = IF args.remove THEN MsgUninstalled ELSE MsgConfigured
             /\ \A i \in 1..Len(out) : ~LogExits(out[i])

\* C6 witness: a configure run whose restart failed has ended.
C6_Witness ==
    /\ ConfigureRunDone /\ Did("restart") /\ code # 0
    /\ Did("move")

\* C7: with the remove flag the credentials are not checked: whatever account
\* and token are given or missing, the run removes (delete if present, then
\* restart), never prints the usage, never exits with status 1, and never
\* renders or writes the config file.
C7_RemoveSkipsValidation ==
    (pc # "start" /\ argv.remove)
        => /\ pc \in {"unconfigure", "remove_loggly_conf", "restart_rsyslog",
                      "unconfigured", "done"}
           /\ ~Printed(Usage)
           /\ status # 1
           /\ config = NoConfig /\ contents = <<>>
           /\ ~Did("open") /\ ~Did("write") /\ ~Did("move")
           /\ pc = "done" => /\ status = 0
                             /\ ~PathExists(target)
                             /\ Did("restart")
                             /\ PathExists(preTarget) => Did("unlink")

\* C7 witness: a remove run with neither account nor token has deleted the file.
C7_Witness ==
    /\ pc = "done" /\ argv.remove
    /\ args.account = None /\ args.token = None
    /\ Did("unlink")

\* The entries of a tag clause: the texts between tag=\" and \" , the entries
\* being separated by one blank.
RECURSIVE ParseEntries(_, _, _)
ParseEntries(c, i, acc) ==
    IF i > Len(c) \/ c[i] # TagOpen \/ ~\E j \in (i + 1)..Len(c) : c[j] = TagClose
    THEN [ok |-> FALSE, entries |-> acc]
    ELSE LET j == CHOOSE k \in (i + 1)..Len(c) :
                     /\ c[k] = TagClose
                     /\ \A m \in (i + 1)..(k - 1) : c[m] # TagClose
             got == Append(acc, SubSeq(c, i + 1, j - 1))
         IN  IF j = Len(c) THEN [ok |-> TRUE, entries |-> got]
             ELSE IF c[j + 1] = " " THEN ParseEntries(c, j + 2, got)
             ELSE [ok |-> FALSE, entries |-> got]

\* C8: with no tags (None or an empty list) the rendered tag clause holds one
\* entry, the tag Rsyslog; with N tags it holds N+1 entries, Rsyslog first and
\* then the given tags in their order, joined by blanks.
C8_TagClause ==
    tpc = "rendered"
        => LET given == IF tagRes.tags = None THEN <<>> ELSE tagRes.tags[1]
               parsed == ParseEntries(tagClause, 1, <<>>)
           IN  /\ parsed.ok
               /\ Len(parsed.entries) = Len(given) + 1
               /\ parsed.entries = <<DefaultTag>> \o given

\* C8 witness: two different tags have been rendered.
C8_Witness ==
    /\ tpc = "rendered"
    /\ tagRes.tags # None /\ Len(tagRes.tags[1]) = 2
    /\ tagRes.tags[1][1] # tagRes.tags[1][2]

\* The words of a string without quotes: its maximal runs of non-blanks.
Words(s) ==
    LET starts == {i \in 1..Len(s) : s[i] # " " /\ (i = 1 \/ s[i - 1] = " ")}
        nth(k) == CHOOSE i \in starts : Cardinality({j \in starts : j < i}) = k - 1
        stop(i) == CHOOSE j \in i..Len(s) :
                      /\ \A m \in i..j : s[m] # " "
                      /\ (j = Len(s) \/ s[j + 1] = " ")
    IN  [k \in 1..Cardinality(starts) |-> SubSeq(s, nth(k), stop(nth(k)))]

\* C9: the --tags flag, when given (even with no values), is the tag list and
\* LOGGLY_TAGS is ignored; otherwise a set, non-empty LOGGLY_TAGS is split the
\* shell's way into the tag list; otherwise there are no tags.
C9_TagLayers ==
    tpc # "input"
        => /\ tagArgs # None => tagRes = [raises |-> FALSE, tags |-> tagArgs]
           /\ (tagArgs = None /\ tagEnv # None /\ tagEnv # Some(<<>>))
                 => /\ tagRes.raises = ShlexSplit(tagEnv[1]).raises
                    /\ ~tagRes.raises => tagRes.tags = Some(ShlexSplit(tagEnv[1]).tokens)
                    /\ (\A i \in 1..Len(tagEnv[1]) : tagEnv[1][i] # "'")
                          => tagRes = [raises |-> FALSE, tags |-> Some(Words(tagEnv[1]))]
           /\ (tagArgs = None /\ (tagEnv = None \/ tagEnv = Some(<<>>)))
                 => tagRes = [raises |-> FALSE, tags |-> None]

\* C9 witness: --tags given with no values while LOGGLY_TAGS names a tag.
C9_Witness ==
    /\ tpc = "resolved"
    /\ tagArgs = Some(<<>>) /\ Truthy(tagEnv) /\ ~ShlexSplit(tagEnv[1]).raises
    /\ tagRes.tags = Some(<<>>)

\* C10: the backup path keeps one generation.  Only a configure run that finds
\* a target file of another content changes the backup file, and it sets it
\* to that target's content, over any earlier backup; after any sequence of
\* runs the backup is the content replaced by the latest such run.
C10_OneGeneration ==
    /\ [](pc \in {"start", "done"} /\ replaced # None => backup = File(replaced[1]))
    /\ [][backup' # backup
            => /\ pc = "read_conf" /\ ~args.remove
               /\ PathExists(preTarget) /\ preTarget.data # Rendered
               /\ backup' = File(preTarget.data)]_vars

\* C10 witness: a second rewriting run has replaced the backup the first made.
C10_Witness ==
    /\ pc = "done" /\ replaced # None
    /\ PathExists(preBackup) /\ preBackup # File(ForeignBackup)
    /\ backup # preBackup

====
